---- MODULE Spec2Model ----
(***************************************************************************)
(* Model of the unified LLM API client of pmc-estimator                    *)
(* (system-google-sheets-addon/config/config-api): APIClient.call with its *)
(* pre-flight limit checks, provider chain, retry loop and usage log,      *)
(* together with UsageTracker, CredentialsManager and ProviderFactory.     *)
(*                                                                         *)
(* Money is counted in micro-dollars (1e-6 USD) and billing rates in units  *)
(* of 1e-4 USD, so that tokens * rate / 1000 dollars is the integer        *)
(* tokens * rate in units of 1e-7 USD, which round(.., 6) brings to        *)
(* micro-dollars.  A timestamp is reduced to its calendar day, counted     *)
(* from the first day of the run.                                          *)
(***************************************************************************)
EXTENDS Integers, Sequences, FiniteSets, TLC

(* ------------------------------ bounds -------------------------------- *)

\* call() is started only while the log holds at most MaxLog entries
MaxLog == 1
\* the calendar advances at most to day MaxDay
MaxDay == 1
\* get_usage_summary is applied to logs of at most MaxSummaryLog entries
MaxSummaryLog == 3
\* callers of log_request running side by side
NumWriters == 2
\* a single caller calls log_request only while the log holds fewer entries
MaxEntries == 2

(* ------------------------- program constants -------------------------- *)

\* _call_with_retries(..., max_attempts=3)
MaxAttempts == 3

None == "None"

\* ProviderFactory.PROVIDERS: the known provider kinds
PROVIDERS == {"claude", "chatgpt", "grok"}

\* str.lower() on the provider names the model uses
Lower(name) ==
    CASE name = "Claude" -> "claude"
      [] name = "ChatGPT" -> "chatgpt"
      [] name = "Grok" -> "grok"
      [] OTHER -> name

(* ------------------------- configuration ------------------------------ *)

\* the providers section of agency-config.json; `enabled` is drawn in Init
ProviderSection(enabledSet) ==
    [p \in PROVIDERS |->
        [enabled |-> p \in enabledSet,
         api_key_env_var |-> CASE p = "claude" -> "ANTHROPIC_API_KEY"
                               [] p = "chatgpt" -> "OPENAI_API_KEY"
                               [] OTHER -> "GROK_API_KEY",
         billing |-> CASE p = "claude" -> [input_per_mtok |-> 400, output_per_mtok |-> 1200]
                       [] p = "chatgpt" -> [input_per_mtok |-> 500, output_per_mtok |-> 2100]
                       [] OTHER -> [input_per_mtok |-> 20, output_per_mtok |-> 100]]]

\* the agents section: primary provider, fallback chain, daily request cap
AgentSection ==
    [a \in {"math-agent", "research-agent"} |->
        IF a = "math-agent"
        THEN [provider |-> "claude", fallback_providers |-> <<"chatgpt">>,
              rate_limit |-> [requests_per_day |-> 2]]
        ELSE [provider |-> "grok", fallback_providers |-> <<"claude", "chatgpt">>,
              rate_limit |-> [requests_per_day |-> 1]]]

\* the configurations a client may be constructed over
Config(enabledSet, base) ==
    [providers |-> ProviderSection(enabledSet),
     agents |-> AgentSection,
     usage_control |-> [cost_tracking |-> [hard_limit_dollars |-> 300]],
     api |-> [retry_backoff_base |-> base]]

AllKeys == {"ANTHROPIC_API_KEY", "OPENAI_API_KEY", "GROK_API_KEY"}

\* os.environ with the variables of setVars holding a key and the others
\* unset: os.environ.get of an unset variable is None
Environ(setVars) == [v \in AllKeys |-> IF v \in setVars THEN "sk-1" ELSE None]

\* the installations a run starts from: the configuration file, the
\* environment and the importable client libraries
Deployments ==
    {[config |-> Config(PROVIDERS, 3), environ |-> Environ(AllKeys),
      installed |-> PROVIDERS]}
    \cup {[config |-> Config(PROVIDERS \ {"chatgpt"}, 2), environ |-> Environ(AllKeys),
           installed |-> PROVIDERS],
          [config |-> Config(PROVIDERS, 2),
           environ |-> Environ(AllKeys \ {"ANTHROPIC_API_KEY"}),
           installed |-> PROVIDERS],
          [config |-> Config(PROVIDERS, 2), environ |-> Environ(AllKeys),
           installed |-> PROVIDERS \ {"grok"}]}

\* values of the preferred_provider argument of APIClient.__init__
Overrides == {None, "chatgpt", "Claude", "grok"}

\* (input_tokens, output_tokens) an upstream API reports for one request
Usages == {<<1, 1>>, <<4, 1>>}

\* classes of exception a provider's call can raise: a ValueError (or a
\* subclass, such as a JSON decoding error), any other Exception, and the
\* NotImplementedError of the scaffolded Grok provider
ErrorClasses == {"ValueError", "Exception", "NotImplementedError"}

(* ---------------------------- state ----------------------------------- *)

VARIABLES
    config,      \* APIClient.config: the loaded agency-config.json
    environ,     \* os.environ: the value of each variable, None when unset
    installed,   \* the provider kinds whose client library can be imported
    today,       \* datetime.now().date()
    log,         \* the content of usage_control.track_file as _load_logs reads it
    client,      \* the constructed APIClient: [agent_name, preferred_provider]
    cache,       \* CredentialsManager._cache: provider name -> cached key
    pc,          \* position of the caller inside call()
    providers_to_try,
    idx,         \* position in providers_to_try of the for loop
    attempt,     \* loop variable of _call_with_retries
    wait_time,   \* the pending time.sleep of _call_with_retries
    response,    \* the APIResponse of the successful provider.call
    last_error,  \* the exception being handled
    outcome,     \* how call() ended
    trace,       \* what call() did so far: credential lookups, constructions,
                 \* provider.call invocations, sleeps, log writes
    startLog,    \* the log when call() was entered
    startDay,    \* the day when call() was entered
    run,         \* per agent: responses returned in a row today, or -1
                 \* once a call of the agent today ended otherwise
    fileState,   \* the log file on disk: "absent", "valid" (the JSON document
                 \* of log) or "partial" (opened for writing, not yet written)
    writers,     \* the callers of log_request running side by side: for each
                 \* its position, its local list logs and its entry
    last,        \* the library call that has just returned: operation,
                 \* arguments, result, and the state it started from
    seen,        \* the latest get_usage_summary result since the last log_request
    granted      \* per provider name: the first key get returned for it

vars == <<config, environ, installed, today, log, client, cache, pc,
          providers_to_try, idx, attempt, wait_time, response, last_error,
          outcome, trace, startLog, startDay, run>>

\* the state of the specifications of the library operations
libVars == <<fileState, writers, last, seen, granted>>

allVars == <<vars, libVars>>

envVars == <<config, environ, installed>>
callVars == <<providers_to_try, idx, attempt, wait_time, response, last_error,
              outcome, trace, startLog, startDay>>

\* no APIClient constructed yet
NoClient == [agent_name |-> None, preferred_provider |-> None]

NoResponse == [provider |-> None, input_tokens |-> 0, output_tokens |-> 0, cost_usd |-> 0]

(* ------------------------- UsageTracker ------------------------------- *)

\* mutant: the cost is cut off after 4 places
Round4Down(c) == (c \div 100) * 100

\* round(cost, 4) on a cost in micro-dollars: to the nearest 100, ties to even
Round4(c) ==
    LET q == c \div 100
        r == c % 100
    IN  IF r < 50 THEN q * 100
        ELSE IF r > 50 THEN (q + 1) * 100
        ELSE IF q % 2 = 0 THEN q * 100 ELSE (q + 1) * 100

\* the log_entry dict of log_request
LogEntry(day, agent_name, provider, tokens_in, tokens_out, cost, status) ==
    [timestamp |-> day, agent |-> agent_name, provider |-> provider,
     tokens_in |-> tokens_in, tokens_out |-> tokens_out,
     total_tokens |-> tokens_in + tokens_out,
     cost_usd |-> Round4(cost), status |-> status]

\* if metadata: log_entry["metadata"] = metadata
WithMetadata(entry, metadata) == ("metadata" :> metadata) @@ entry

\* metadata={"max_tokens": max_tokens}, max_tokens left at its default
SuccessMetadata == [max_tokens |-> None]

\* metadata={"error": str(e)}: the message of the exception being handled.
\* Nothing reads it back, and the model keeps of it that it is a message.
FailureMetadata(e) == [error |-> "str(e)"]

\* mutant: log_request writes a list that holds the new entry only
LogRequestReplacing(logs, entry) == <<entry>>

\* log_request with a successful write: load, append, write back
LogRequest(logs, entry) == Append(logs, entry)

RECURSIVE TotalCost(_)
\* get_usage_summary()["total_cost"]: the cost of the success entries
TotalCost(logs) ==
    IF logs = <<>> THEN 0
    ELSE LET e == logs[Len(logs)]
         IN  TotalCost(SubSeq(logs, 1, Len(logs) - 1))
             + (IF e.status = "success" THEN e.cost_usd ELSE 0)

\* mutant: the cost check lets a call through when the cost equals the limit
WithinCostLimitInclusive(current, limit) == current <= limit

\* check_cost_limit()[0]
WithinCostLimit(current, limit) == current < limit

\* mutant: the cost check compares with the default limit of 100 USD
CheckCostLimitDefaultLimit(cfg, logs) ==
    WithinCostLimit(TotalCost(logs), 100000000)

\* check_cost_limit()[0] with the limit of the configuration
CheckCostLimit(cfg, logs) ==
    WithinCostLimit(TotalCost(logs), cfg.usage_control.cost_tracking.hard_limit_dollars)

\* mutant: the daily count leaves the failure entries out
RequestsTodaySuccessOnly(logs, day, agent_name) ==
    Cardinality({i \in 1..Len(logs) :
                    /\ logs[i].timestamp = day
                    /\ logs[i].agent = agent_name
                    /\ logs[i].status = "success"})

\* today_requests of check_requests_per_agent_per_day
RequestsToday(logs, day, agent_name) ==
    Cardinality({i \in 1..Len(logs) :
                    logs[i].timestamp = day /\ logs[i].agent = agent_name})

\* mutant: the daily check lets request N+1 through
WithinDailyLimitInclusive(today_requests, limit) == today_requests <= limit

\* check_requests_per_agent_per_day()[0]
WithinDailyLimit(today_requests, limit) == today_requests < limit

CheckRequestsPerAgentPerDay(cfg, logs, day, agent_name) ==
    WithinDailyLimit(RequestsToday(logs, day, agent_name),
                     cfg.agents[agent_name].rate_limit.requests_per_day)

(* --------------------- credentials and factory ------------------------ *)

\* CredentialsManager._cache = {}
EmptyCache == [n \in {} |-> None]

\* a ValueError raised by CredentialsManager.get
CredentialError(reason) == [ok |-> FALSE, key |-> None, reason |-> reason]

\* not api_key: os.environ.get returned None or the empty string
Falsy(value) == value = None \/ value = ""

\* mutant: get reads the environment on every call, whatever is cached
CredentialsGetUncached(cfg, env, cached, provider_name) ==
    LET n == Lower(provider_name)
    IN  IF n \notin DOMAIN cfg.providers THEN CredentialError("not found in config")
        ELSE IF Falsy(cfg.providers[n].api_key_env_var)
        THEN CredentialError("no api_key_env_var")
        ELSE IF Falsy(env[cfg.providers[n].api_key_env_var])
        THEN CredentialError("key not found")
        ELSE [ok |-> TRUE, key |-> env[cfg.providers[n].api_key_env_var], reason |-> None]

\* CredentialsManager.get: the key returned, or the reason it raises ValueError
CredentialsGet(cfg, env, cached, provider_name) ==
    LET n == Lower(provider_name)
    IN  IF n \in DOMAIN cached THEN [ok |-> TRUE, key |-> cached[n], reason |-> None]
        ELSE IF n \notin DOMAIN cfg.providers THEN CredentialError("not found in config")
        ELSE IF Falsy(cfg.providers[n].api_key_env_var)
        THEN CredentialError("no api_key_env_var")
        ELSE IF Falsy(env[cfg.providers[n].api_key_env_var])
        THEN CredentialError("key not found")
        ELSE [ok |-> TRUE, key |-> env[cfg.providers[n].api_key_env_var], reason |-> None]

\* mutant: get stores in the cache whatever the lookup ended with
CacheAfterGetAlways(cached, provider_name, got) ==
    IF Lower(provider_name) \notin DOMAIN cached
    THEN (Lower(provider_name) :> got.key) @@ cached
    ELSE cached

\* self._cache[provider_name] = api_key, executed when get returns a key
CacheAfterGet(cached, provider_name, got) ==
    IF got.ok /\ Lower(provider_name) \notin DOMAIN cached
    THEN (Lower(provider_name) :> got.key) @@ cached
    ELSE cached

\* mutant: the factory constructs a provider that is not enabled
FactoryCreateIgnoringEnabled(provider_name, provider_config, libs) ==
    LET n == Lower(provider_name)
    IN  IF n \notin PROVIDERS THEN "unknown provider"
        ELSE IF n \notin libs THEN "ImportError"
        ELSE "ok"

\* ProviderFactory.create: "ok", the reason it raises ValueError, or
\* "ImportError" when the provider's constructor cannot import its library
FactoryCreate(provider_name, provider_config, libs) ==
    LET n == Lower(provider_name)
    IN  IF n \notin PROVIDERS THEN "unknown provider"
        ELSE IF ~provider_config.enabled THEN "not enabled"
        ELSE IF n \notin libs THEN "ImportError"
        ELSE "ok"

(* --------------------------- providers -------------------------------- *)

\* round(cost, 6) on a cost in units of 1e-7 USD: to the nearest micro-dollar,
\* ties to even
Round6(x) ==
    LET q == x \div 10
        r == x % 10
    IN  IF r < 5 THEN q
        ELSE IF r > 5 THEN q + 1
        ELSE IF q % 2 = 0 THEN q ELSE q + 1

\* the placeholder rates of GrokProvider.calculate_cost: 0.002 and 0.01
GrokDefaultRates == [input_per_mtok |-> 20, output_per_mtok |-> 100]

\* calculate_cost raised KeyError
KeyError == [ok |-> FALSE, cost |-> 0]

\* (input_tokens * rate_in) / 1000 + (output_tokens * rate_out) / 1000,
\* rounded to 6 places: the return statement shared by the three providers
CostOf(input_tokens, rate_in, output_tokens, rate_out) ==
    [ok |-> TRUE, cost |-> Round6(input_tokens * rate_in + output_tokens * rate_out)]

\* mutant: the Grok provider charges its placeholder rates whatever is configured
CalculateCostGrokPlaceholder(kind, provider_config, input_tokens, output_tokens) ==
    IF "billing" \notin DOMAIN provider_config THEN KeyError
    ELSE LET billing == provider_config.billing
         IN  IF kind = "grok"
             THEN CostOf(input_tokens, GrokDefaultRates.input_per_mtok,
                         output_tokens, GrokDefaultRates.output_per_mtok)
             ELSE IF {"input_per_mtok", "output_per_mtok"} \subseteq DOMAIN billing
             THEN CostOf(input_tokens, billing.input_per_mtok,
                         output_tokens, billing.output_per_mtok)
             ELSE KeyError

\* calculate_cost of the provider variant `kind`, in micro-dollars.  Claude
\* and ChatGPT index the billing section, Grok reads it with billing.get and
\* a default rate.
CalculateCost(kind, provider_config, input_tokens, output_tokens) ==
    IF "billing" \notin DOMAIN provider_config THEN KeyError
    ELSE LET billing == provider_config.billing
             rate(k) == IF k \in DOMAIN billing THEN billing[k] ELSE GrokDefaultRates[k]
         IN  IF kind = "grok"
             THEN CostOf(input_tokens, rate("input_per_mtok"),
                         output_tokens, rate("output_per_mtok"))
             ELSE IF {"input_per_mtok", "output_per_mtok"} \subseteq DOMAIN billing
             THEN CostOf(input_tokens, billing.input_per_mtok,
                         output_tokens, billing.output_per_mtok)
             ELSE KeyError

(* --------------------------- APIClient -------------------------------- *)

\* mutant: an override is put in front of the agent's own list
ProvidersToTryKeepingDefault(cl, cfg) ==
    IF cl.preferred_provider # None
    THEN <<cl.preferred_provider, cfg.agents[cl.agent_name].provider>>
         \o cfg.agents[cl.agent_name].fallback_providers
    ELSE <<cfg.agents[cl.agent_name].provider>> \o cfg.agents[cl.agent_name].fallback_providers

\* providers_to_try = [primary] + fallbacks
ProvidersToTry(cl, cfg) ==
    LET primary == IF cl.preferred_provider # None THEN cl.preferred_provider
                   ELSE cfg.agents[cl.agent_name].provider
    IN  <<primary>> \o cfg.agents[cl.agent_name].fallback_providers

\* mutant: linear instead of exponential backoff
WaitTimeLinear(base, n) == base * (n + 1)

\* wait_time = retry_backoff_base ** attempt
WaitTime(base, n) == base ^ n

\* mutant: a further attempt follows the failure of the last one
AttemptsRemainAfterLast(n) == n < MaxAttempts

\* attempt < max_attempts - 1 : another attempt follows a failure
AttemptsRemain(n) == n < MaxAttempts - 1

\* provider_name == providers_to_try[-1]
IsLastProvider(list, i) == list[i] = list[Len(list)]

Event(op, pos, arg) == [op |-> op, pos |-> pos, arg |-> arg]

\* no library call has just returned
NoCall == [op |-> None]

\* no summary was taken since the last log_request
NoSummary == [any |-> FALSE]

\* the library specifications are not running
LibraryAtRest ==
    /\ fileState = "absent"
    /\ writers = <<>>
    /\ last = NoCall
    /\ seen = NoSummary
    /\ granted = EmptyCache

Init ==
    /\ \E d \in Deployments :
          /\ config = d.config
          /\ environ = d.environ
          /\ installed = d.installed
    /\ today = 0
    /\ log = <<>>
    /\ client = NoClient
    /\ cache = EmptyCache
    /\ pc = "idle"
    /\ providers_to_try = <<>>
    /\ idx = 0
    /\ attempt = 0
    /\ wait_time = 0
    /\ response = NoResponse
    /\ last_error = None
    /\ outcome = None
    /\ trace = <<>>
    /\ startLog = <<>>
    /\ startDay = 0
    /\ run = [a \in DOMAIN AgentSection |-> 0]
    /\ LibraryAtRest

\* midnight passes.  The clock is read by the daily-limit check and by
\* log_request only, so inside call() midnight is placed between the two.
Tick ==
    /\ pc \in {"idle", "check_cost"}
    /\ today < MaxDay
    /\ today' = today + 1
    /\ run' = [a \in DOMAIN run |-> 0]
    /\ UNCHANGED <<envVars, log, client, cache, pc, callVars>>

\* APIClient.__init__(agent_name, preferred_provider=...)
NewClient ==
    /\ pc = "idle"
    /\ \E a \in DOMAIN config.agents, o \in Overrides :
          client' = [agent_name |-> a, preferred_provider |-> o]
    /\ cache' = EmptyCache
    /\ UNCHANGED <<envVars, today, log, pc, callVars, run>>

\* mutant: call() looks at the cost limit before the daily limit
CheckDailyCostFirst ==
    /\ pc = "idle"
    /\ client # NoClient
    /\ Len(log) <= MaxLog
    /\ startLog' = log
    /\ startDay' = today
    /\ IF ~CheckCostLimit(config, log)
       THEN /\ pc' = "done"
            /\ outcome' = "cost_limit"
       ELSE IF CheckRequestsPerAgentPerDay(config, log, today, client.agent_name)
       THEN /\ pc' = "check_cost"
            /\ outcome' = outcome
       ELSE /\ pc' = "done"
            /\ outcome' = "daily_limit"
    /\ UNCHANGED <<envVars, today, log, client, cache, providers_to_try, idx,
                   attempt, wait_time, response, last_error, trace, run>>

\* call() is entered: the daily-limit check
CheckDaily ==
    /\ pc = "idle"
    /\ client # NoClient
    /\ Len(log) <= MaxLog
    /\ startLog' = log
    /\ startDay' = today
    /\ IF CheckRequestsPerAgentPerDay(config, log, today, client.agent_name)
       THEN /\ pc' = "check_cost"
            /\ outcome' = outcome
       ELSE /\ pc' = "done"
            /\ outcome' = "daily_limit"
    /\ UNCHANGED <<envVars, today, log, client, cache, providers_to_try, idx,
                   attempt, wait_time, response, last_error, trace, run>>

\* mutant: a call stopped by the cost limit is recorded as a failure
CheckCostRecordingFailure ==
    /\ pc = "check_cost"
    /\ IF CheckCostLimit(config, log)
       THEN /\ pc' = "resolve"
            /\ providers_to_try' = ProvidersToTry(client, config)
            /\ idx' = 1
            /\ UNCHANGED <<outcome, log>>
       ELSE /\ pc' = "done"
            /\ outcome' = "cost_limit"
            /\ log' = LogRequest(log, LogEntry(today, client.agent_name, None,
                                               0, 0, 0, "failure"))
            /\ UNCHANGED <<providers_to_try, idx>>
    /\ UNCHANGED <<envVars, today, client, cache, attempt, wait_time,
                   response, last_error, trace, startLog, startDay, run>>

\* the cost-limit check, then the provider list
CheckCost ==
    /\ pc = "check_cost"
    /\ IF CheckCostLimit(config, log)
       THEN /\ pc' = "resolve"
            /\ providers_to_try' = ProvidersToTry(client, config)
            /\ idx' = 1
            /\ outcome' = outcome
       ELSE /\ pc' = "done"
            /\ outcome' = "cost_limit"
            /\ UNCHANGED <<providers_to_try, idx>>
    /\ UNCHANGED <<envVars, today, log, client, cache, attempt, wait_time,
                   response, last_error, trace, startLog, startDay, run>>

\* top of the for loop: provider config, API key, provider instance
Resolve ==
    /\ pc = "resolve"
    /\ LET name == providers_to_try[idx] IN
       IF name \notin DOMAIN config.providers
       THEN /\ pc' = "done"
            /\ outcome' = "config_error"
            /\ UNCHANGED <<cache, trace, attempt, last_error>>
       ELSE LET got == CredentialsGet(config, environ, cache, name)
                made == FactoryCreate(name, config.providers[name], installed)
            IN  IF ~got.ok
                THEN /\ pc' = "done"
                     /\ outcome' = "credential_error"
                     /\ trace' = Append(trace, Event("get", idx, 0))
                     /\ UNCHANGED <<cache, attempt, last_error>>
                ELSE /\ cache' = CacheAfterGet(cache, name, got)
                     /\ IF made \in {"unknown provider", "not enabled"}
                        THEN /\ pc' = "done"
                             /\ outcome' = "config_error"
                             /\ trace' = Append(trace, Event("get", idx, 1))
                             /\ UNCHANGED <<attempt, last_error>>
                        ELSE IF made = "ImportError"
                        THEN /\ pc' = "except"
                             /\ last_error' = "ImportError"
                             /\ trace' = Append(trace, Event("get", idx, 1))
                             /\ UNCHANGED <<attempt, outcome>>
                        ELSE /\ pc' = "attempt"
                             /\ attempt' = 0
                             /\ trace' = Append(Append(trace, Event("get", idx, 1)),
                                                Event("create", idx, 1))
                             /\ UNCHANGED <<last_error, outcome>>
    /\ UNCHANGED <<envVars, today, log, client, providers_to_try, idx, wait_time,
                   response, startLog, startDay, run>>

\* what one provider.call invocation can do: return a response or raise
CallResults(name) ==
    IF Lower(name) = "grok"
    THEN {[ok |-> FALSE, error |-> "NotImplementedError", usage |-> <<0, 0>>]}
    ELSE {[ok |-> TRUE, error |-> None, usage |-> u] : u \in Usages}
         \cup {[ok |-> FALSE, error |-> e, usage |-> <<0, 0>>] :
                 e \in ErrorClasses \ {"NotImplementedError"}}

\* one iteration of _call_with_retries: provider.call and its except clause
ProviderCall ==
    /\ pc = "attempt"
    /\ \E r \in CallResults(providers_to_try[idx]) :
          LET cost == CalculateCost(Lower(providers_to_try[idx]),
                                    config.providers[providers_to_try[idx]],
                                    r.usage[1], r.usage[2])
              returned == r.ok /\ cost.ok
              error == IF r.ok THEN "Exception" ELSE r.error
          IN
          /\ trace' = Append(trace, Event("call", idx, IF returned THEN 1 ELSE 0))
          /\ IF returned
             THEN /\ response' =
                        [provider |-> Lower(providers_to_try[idx]),
                         input_tokens |-> r.usage[1],
                         output_tokens |-> r.usage[2],
                         cost_usd |-> cost.cost]
                  /\ pc' = "log_success"
                  /\ UNCHANGED <<wait_time, last_error, outcome>>
             ELSE IF AttemptsRemain(attempt)
             THEN /\ wait_time' = WaitTime(config.api.retry_backoff_base, attempt)
                  /\ pc' = "sleep"
                  /\ UNCHANGED <<response, last_error, outcome>>
             ELSE IF error = "ValueError"
             THEN /\ pc' = "done"
                  /\ outcome' = "provider_value_error"
                  /\ last_error' = error
                  /\ UNCHANGED <<response, wait_time>>
             ELSE /\ pc' = "except"
                  /\ last_error' = error
                  /\ UNCHANGED <<response, wait_time, outcome>>
    /\ UNCHANGED <<envVars, today, log, client, cache, providers_to_try, idx,
                   attempt, startLog, startDay, run>>

\* time.sleep(wait_time), then the next attempt
Sleep ==
    /\ pc = "sleep"
    /\ trace' = Append(trace, Event("sleep", idx, wait_time))
    /\ attempt' = attempt + 1
    /\ pc' = "attempt"
    /\ UNCHANGED <<envVars, today, log, client, cache, providers_to_try, idx,
                   wait_time, response, last_error, outcome, startLog, startDay, run>>

\* how the write of the log file can end: written; open() refused, the file
\* untouched; or the write broke off after open() truncated the file, which
\* _load_logs then reads as []
WriteResults == {"written", "refused", "truncated"}

AfterWrite(logs, entry, w) ==
    CASE w = "written" -> LogRequest(logs, entry)
      [] w = "refused" -> logs
      [] OTHER -> <<>>

\* a write that broke off loses the day's history of every agent
AfterWriteRun(r, w) == IF w = "truncated" THEN [a \in DOMAIN r |-> -1] ELSE r

\* log_request(status="success") and return response
LogSuccess ==
    /\ pc = "log_success"
    /\ \E w \in WriteResults :
          /\ log' = AfterWrite(log,
                        WithMetadata(
                            LogEntry(today, client.agent_name, providers_to_try[idx],
                                     response.input_tokens, response.output_tokens,
                                     response.cost_usd, "success"),
                            SuccessMetadata), w)
          /\ trace' = Append(trace, Event("log_success", idx, IF w = "written" THEN 1 ELSE 0))
          /\ IF w = "written"
             THEN /\ pc' = "done"
                  /\ outcome' = "response"
                  /\ UNCHANGED last_error
             ELSE /\ pc' = "except"
                  /\ last_error' = "OSError"
                  /\ UNCHANGED outcome
          /\ run' = AfterWriteRun(run, w)
    /\ UNCHANGED <<envVars, today, client, cache, providers_to_try, idx, attempt,
                   wait_time, response, startLog, startDay>>

\* the except Exception clause of call()
ExceptException ==
    /\ pc = "except"
    /\ IF IsLastProvider(providers_to_try, idx)
       THEN \E w \in WriteResults :
              /\ log' = AfterWrite(log,
                            WithMetadata(
                                LogEntry(today, client.agent_name, providers_to_try[idx],
                                         0, 0, 0, "failure"),
                                FailureMetadata(last_error)), w)
              /\ trace' = Append(trace, Event("log_failure", idx, IF w = "written" THEN 1 ELSE 0))
              /\ outcome' = IF w = "written" THEN "all_failed" ELSE "log_error"
              /\ pc' = "done"
              /\ run' = AfterWriteRun(run, w)
              /\ UNCHANGED idx
       ELSE /\ idx' = idx + 1
            /\ pc' = "resolve"
            /\ UNCHANGED <<log, trace, outcome, run>>
    /\ UNCHANGED <<envVars, today, client, cache, providers_to_try, attempt,
                   wait_time, response, last_error, startLog, startDay>>

\* call() has returned or raised; the caller goes on and the frame of the
\* call is gone
Finish ==
    /\ pc = "done"
    /\ pc' = "idle"
    /\ run' = [run EXCEPT ![client.agent_name] =
                  IF outcome = "response" /\ startDay = today /\ @ >= 0
                  THEN @ + 1 ELSE -1]
    /\ providers_to_try' = <<>>
    /\ idx' = 0
    /\ attempt' = 0
    /\ wait_time' = 0
    /\ response' = NoResponse
    /\ last_error' = None
    /\ outcome' = None
    /\ trace' = <<>>
    /\ startLog' = <<>>
    /\ startDay' = 0
    /\ UNCHANGED <<envVars, today, log, client, cache>>

Next ==
    \/ Tick
    \/ NewClient
    \/ CheckDaily
    \/ CheckCost
    \/ Resolve
    \/ ProviderCall
    \/ Sleep
    \/ LogSuccess
    \/ ExceptException
    \/ Finish

Spec == Init /\ [][Next /\ UNCHANGED libVars]_allVars

(* ------------------------ reading the trace --------------------------- *)

\* indices of the events of kind op at position pos of providers_to_try
EventsAt(op, pos) ==
    {i \in DOMAIN trace : trace[i].op = op /\ trace[i].pos = pos}

\* some write of the usage log failed during this call
SomeWriteFailed ==
    \E i \in DOMAIN trace :
        trace[i].op \in {"log_success", "log_failure"} /\ trace[i].arg = 0

\* at least one provider.call was made in this call and every one returned
EveryProviderCallSucceeded ==
    /\ \E i \in DOMAIN trace : trace[i].op = "call"
    /\ \A i \in DOMAIN trace : trace[i].op = "call" => trace[i].arg = 1

\* the daily cap of the agent the client is bound to
DailyCap == config.agents[client.agent_name].rate_limit.requests_per_day

HardLimit == config.usage_control.cost_tracking.hard_limit_dollars

\* the cost of the success entries of a log, summed entry by entry
SuccessCost(logs) ==
    LET upto[n \in 0..Len(logs)] ==
            IF n = 0 THEN 0
            ELSE upto[n - 1] + (IF logs[n].status = "success" THEN logs[n].cost_usd ELSE 0)
    IN  upto[Len(logs)]

\* entries of agent a in logs that are dated day d
EntriesOn(logs, a, d) ==
    Cardinality({i \in DOMAIN logs : logs[i].agent = a /\ logs[i].timestamp = d})

(* ------------------------------ claims -------------------------------- *)

\* C1: for an agent with requests_per_day = N whose log held no entry of
\* today when the day began, calls 1..N of one caller within the day are not
\* stopped by the daily limit and return a response when their provider call
\* succeeds and nothing else fails, and call N+1 fails with the daily-limit
\* error.  run[A] is the number of calls of A that returned a response so
\* far today, with no other call of A in between.
C1_DailyLimitAtNPlusOne ==
    (pc = "done" /\ run[client.agent_name] >= 0 /\ startDay = today) =>
        /\ run[client.agent_name] <= DailyCap
        /\ run[client.agent_name] = EntriesOn(startLog, client.agent_name, today)
        /\ run[client.agent_name] < DailyCap =>
              /\ outcome # "daily_limit"
              /\ (EveryProviderCallSucceeded /\ ~SomeWriteFailed) => outcome = "response"
        /\ run[client.agent_name] = DailyCap => outcome = "daily_limit"

\* C1 witness: after N responses in a row today, call N+1 has just failed
\* with the daily-limit error
C1_Witness ==
    /\ pc = "done"
    /\ startDay = today
    /\ run[client.agent_name] = DailyCap
    /\ outcome = "daily_limit"

\* C2 as stated: the cost check is within-limit iff the cost of the success
\* entries is strictly below hard_limit_dollars, and whenever that cost has
\* reached the limit the next call() fails with the cost-limit error.
C2_Original ==
    /\ CheckCostLimit(config, log) <=> SuccessCost(log) < HardLimit
    /\ (pc = "done" /\ SuccessCost(startLog) >= HardLimit) => outcome = "cost_limit"

\* C2 amended: the cost check is within-limit iff the cost of the success
\* entries of every agent and provider is strictly below hard_limit_dollars;
\* whenever that cost has reached the limit the next call() fails before any
\* provider is contacted, with the cost-limit error if the agent is within
\* its daily request limit and with the daily-limit error otherwise; and the
\* cost-limit error is raised in no other case.
C2_CostLimitBlocks ==
    /\ CheckCostLimit(config, log) <=> SuccessCost(log) < HardLimit
    /\ (pc = "done" /\ SuccessCost(startLog) >= HardLimit) =>
          /\ trace = <<>>
          /\ outcome = IF EntriesOn(startLog, client.agent_name, startDay) < DailyCap
                       THEN "cost_limit" ELSE "daily_limit"
    /\ (pc = "done" /\ outcome = "cost_limit") => SuccessCost(startLog) >= HardLimit

\* C2 witness: a call has failed with the cost-limit error with the cost
\* exactly at the limit
C2_Witness ==
    /\ pc = "done"
    /\ outcome = "cost_limit"
    /\ SuccessCost(startLog) = HardLimit

\* C3: a call() that fails a pre-flight check has looked up no credential,
\* constructed and called no provider, not entered the provider list, and
\* left the usage log and the credential cache as they were.
C3_PreflightFailureTouchesNothing ==
    (pc = "done" /\ outcome \in {"daily_limit", "cost_limit"}) =>
        /\ trace = <<>>
        /\ idx = 0
        /\ providers_to_try = <<>>
        /\ log = startLog
        /\ response = NoResponse

\* C3 witness: a call has failed the cost check over a non-empty log
C3_Witness ==
    /\ pc = "done"
    /\ outcome = "cost_limit"
    /\ startLog # <<>>
    /\ log = startLog

\* number of provider.call invocations at position pos that raised
FailedCallsAt(pos) ==
    Cardinality({i \in EventsAt("call", pos) : trace[i].arg = 0})

\* C4 as stated: providers are resolved in the order of [primary] +
\* fallback_providers, and when the first provider has failed all its retries
\* and the second has succeeded, call() returns the second provider's
\* response, and the log is the log as it was plus one success entry naming
\* provider 2.
C4_Original ==
    /\ \A i \in DOMAIN trace :
          trace[i].op = "get" =>
             trace[i].pos = 1 + Cardinality({j \in 1..(i - 1) : trace[j].op = "get"})
    /\ (/\ pc = "done"
        /\ FailedCallsAt(1) = MaxAttempts
        /\ \E i \in EventsAt("call", 2) : trace[i].arg = 1) =>
          /\ outcome = "response"
          /\ response.provider = providers_to_try[2]
          /\ Len(log) = Len(startLog) + 1
          /\ SubSeq(log, 1, Len(startLog)) = startLog
          /\ log[Len(log)].status = "success"
          /\ log[Len(log)].provider = providers_to_try[2]

\* C5 as stated, for calls in which no write of the log failed: a provider
\* that exhausted its retries at a position other than the last does not end
\* the call (an error re-raised as ValueError aside), and the
\* all-providers-failed outcome and the failure entry occur at the last
\* position of the list only.
C5_Original ==
    (pc = "done" /\ ~SomeWriteFailed) =>
        /\ (FailedCallsAt(idx) = MaxAttempts /\ outcome # "provider_value_error") =>
              idx = Len(providers_to_try)
        /\ outcome = "all_failed" => idx = Len(providers_to_try)
        /\ \A i \in DOMAIN trace :
              trace[i].op = "log_failure" => trace[i].pos = Len(providers_to_try)

\* C6: per provider, provider.call is invoked at most 3 times; a sleep follows
\* a failed attempt only, the first lasts b^0 = 1 and the second b^1 = b,
\* there is no third; every attempt after the first is preceded by its sleep;
\* nothing follows a successful attempt at that provider.
C6_RetriesAndBackoff ==
    \A i \in DOMAIN trace :
        LET p == trace[i].pos
            before == Cardinality({j \in EventsAt("call", p) : j < i})
        IN  /\ trace[i].op = "call" =>
                  /\ before < 3
                  /\ before > 0 =>
                        /\ trace[i - 1].op = "sleep"
                        /\ trace[i - 1].pos = p
                  /\ trace[i].arg = 1 =>
                        \A j \in DOMAIN trace :
                            (j > i /\ trace[j].pos = p) => trace[j].op \notin {"call", "sleep"}
            /\ trace[i].op = "sleep" =>
                  /\ trace[i - 1].op = "call"
                  /\ trace[i - 1].pos = p
                  /\ trace[i - 1].arg = 0
                  /\ before \in {1, 2}
                  /\ trace[i].arg = IF before = 1 THEN 1
                                    ELSE config.api.retry_backoff_base
                  /\ i < Len(trace) => trace[i + 1].op = "call" /\ trace[i + 1].pos = p

\* C6 witness: a provider has failed its three attempts, with sleeps of 1 and
\* of b = 3 in between, and no sleep was started after the third
C6_Witness ==
    /\ config.api.retry_backoff_base = 3
    /\ pc = "except"
    /\ FailedCallsAt(idx) = 3
    /\ \E i, j \in EventsAt("sleep", idx) : i < j /\ trace[i].arg = 1 /\ trace[j].arg = 3
    /\ trace[Len(trace)].op = "call"

\* C7 as stated: no provider is invoked after a provider attempt succeeded,
\* and a finished call() has exactly one outcome; a returned response is the
\* one of the only successful attempt.
C7_Original ==
    /\ \A i, j \in DOMAIN trace :
          (i < j /\ trace[i].op = "call" /\ trace[i].arg = 1) => trace[j].op # "call"
    /\ pc = "done" =>
          /\ outcome # None
          /\ outcome = "response" =>
                /\ response # NoResponse
                /\ \E i \in EventsAt("call", idx) : trace[i].arg = 1

\* the provider named has a configuration or credential defect: it is absent
\* from the configuration, disabled, or its key is not set
Defective(name) ==
    \/ name \notin DOMAIN config.providers
    \/ ~config.providers[name].enabled
    \/ /\ Lower(name) \notin DOMAIN cache
       /\ Falsy(environ[config.providers[name].api_key_env_var])

\* C8: provider.call is never invoked at a position whose provider has a
\* configuration or credential defect, no provider is constructed there, and
\* a call() that reached such a position has ended there with the error;
\* positions after it are not tried.
C8_DefectAborts ==
    /\ \A p \in DOMAIN providers_to_try :
          Defective(providers_to_try[p]) =>
             /\ EventsAt("call", p) = {}
             /\ EventsAt("create", p) = {}
             /\ idx <= p
    /\ (pc = "done" /\ idx >= 1 /\ Defective(providers_to_try[idx])) =>
          /\ outcome \in {"config_error", "credential_error"}
          /\ \A i \in DOMAIN trace : trace[i].pos = idx => trace[i].op = "get"

\* C8 witness: a disabled primary has ended the call at the first position
\* while a fallback was configured
C8_Witness ==
    /\ pc = "done"
    /\ idx = 1
    /\ Len(providers_to_try) > 1
    /\ providers_to_try[1] \in DOMAIN config.providers
    /\ ~config.providers[providers_to_try[1]].enabled
    /\ outcome = "config_error"
    /\ trace # <<>>

\* the names of the list are pairwise different
DistinctNames(list) == \A i, j \in DOMAIN list : list[i] = list[j] => i = j

\* C9 as stated, for lists of distinct names: a provider whose call failed is
\* retried up to the ceiling whatever the class of the error, and a call()
\* does not end at a provider that exhausted its retries while fallback
\* providers remain.
C9_Original ==
    (pc = "done" /\ idx >= 1 /\ DistinctNames(providers_to_try)) =>
        (FailedCallsAt(idx) = MaxAttempts => idx = Len(providers_to_try))

\* every call of the provider named fails with the not-implemented condition
NotImplemented(name) ==
    \A r \in CallResults(name) : ~r.ok /\ r.error = "NotImplementedError"

\* C10 as stated: a provider whose call fails with the not-implemented
\* condition is invoked once and no backoff sleep is made for it.
C10_Original ==
    \A p \in DOMAIN providers_to_try :
        NotImplemented(providers_to_try[p]) =>
            /\ Cardinality(EventsAt("call", p)) <= 1
            /\ EventsAt("sleep", p) = {}

(* ------------------ the operations taken one by one ------------------- *)

\* the client side of the model is not running: no APIClient, no call()
ClientAtRest ==
    /\ client = NoClient
    /\ pc = "idle"
    /\ providers_to_try = <<>>
    /\ idx = 0
    /\ attempt = 0
    /\ wait_time = 0
    /\ response = NoResponse
    /\ last_error = None
    /\ outcome = None
    /\ trace = <<>>
    /\ startDay = 0
    /\ run = [a \in DOMAIN AgentSection |-> 0]

\* _load_logs: [] when the file does not exist or does not parse as JSON,
\* which is what a file opened for writing and not yet written does
LoadLogs(state, content) == IF state = "valid" THEN content ELSE <<>>

(* ------------------- log_request, callers side by side ---------------- *)

Writers == 1..NumWriters

\* the logs the callers find
StartLogs == {<<>>, <<LogEntry(0, "research-agent", "claude", 4, 1, 3200, "success")>>}

\* log_request has not started; the entry is the caller's log_entry
WriterStart(agent_name) ==
    [pc |-> "start", logs |-> <<>>,
     entry |-> LogEntry(0, agent_name, "claude", 1, 1, 1600, "success")]

WritersInit ==
    /\ config = Config(PROVIDERS, 2)
    /\ environ = Environ(AllKeys)
    /\ installed = PROVIDERS
    /\ today = 0
    /\ cache = EmptyCache
    /\ ClientAtRest
    /\ \E l \in StartLogs :
          /\ log = l
          /\ startLog = l
          /\ fileState = IF l = <<>> THEN "absent" ELSE "valid"
    /\ writers \in [Writers -> {WriterStart(a) : a \in DOMAIN AgentSection}]
    /\ last = NoCall
    /\ seen = NoSummary
    /\ granted = EmptyCache

\* logs = self._load_logs(); logs.append(log_entry)
WriterLoad(w) ==
    /\ writers[w].pc = "start"
    /\ writers' = [writers EXCEPT ![w] =
                      [pc |-> "loaded",
                       logs |-> Append(LoadLogs(fileState, log), writers[w].entry),
                       entry |-> writers[w].entry]]
    /\ UNCHANGED <<fileState, log>>

\* open(self.log_file, "w"): the file is created or truncated
WriterOpen(w) ==
    /\ writers[w].pc = "loaded"
    /\ fileState' = "partial"
    /\ log' = <<>>
    /\ writers' = [writers EXCEPT ![w].pc = "opened"]

\* json.dump(logs, f) and the close of the file: the caller's list is the file
WriterDump(w) ==
    /\ writers[w].pc = "opened"
    /\ fileState' = "valid"
    /\ log' = writers[w].logs
    /\ writers' = [writers EXCEPT ![w].pc = "done"]

\* what the callers of log_request leave alone
WritersFrame ==
    <<envVars, today, client, cache, pc, callVars, run, last, seen, granted>>

WritersNext ==
    \E w \in Writers :
        \/ WriterLoad(w)
        \/ WriterOpen(w)
        \/ WriterDump(w)

SpecWriters == WritersInit /\ [][WritersNext /\ UNCHANGED WritersFrame]_allVars

\* every caller has returned from log_request
AllWritersDone == \A w \in Writers : writers[w].pc = "done"

\* C11 as stated: when N concurrent log_request calls have all returned, the
\* log holds exactly N entries more than before they began.
C11_Original ==
    AllWritersDone => Len(LoadLogs(fileState, log)) = Len(startLog) + NumWriters

(* --------------------- UsageTracker, one caller ----------------------- *)

\* summary = {"total_calls": len(logs), "total_tokens": 0, ...}
NewSummary(logs) ==
    [total_calls |-> Len(logs), total_tokens |-> 0, total_cost |-> 0,
     by_provider |-> [k \in {} |-> 0], by_agent |-> [k \in {} |-> 0]]

\* mutant: the row of a key holds its newest entry only
AddToOverwriting(table, key, tokens, cost) ==
    (key :> [calls |-> 1, tokens |-> tokens, cost |-> cost]) @@ table

\* the row of a breakdown after one more entry is added under key
AddTo(table, key, tokens, cost) ==
    LET row == IF key \in DOMAIN table THEN table[key]
               ELSE [calls |-> 0, tokens |-> 0, cost |-> 0]
    IN  (key :> [calls |-> row.calls + 1, tokens |-> row.tokens + tokens,
                 cost |-> row.cost + cost]) @@ table

\* mutant: the loop of get_usage_summary does not skip the failure entries
SummaryStepCountingAll(summary, entry) ==
    [summary EXCEPT
        !.total_cost = @ + entry.cost_usd,
        !.total_tokens = @ + entry.total_tokens,
        !.by_provider = AddTo(@, entry.provider, entry.total_tokens, entry.cost_usd),
        !.by_agent = AddTo(@, entry.agent, entry.total_tokens, entry.cost_usd)]

\* one iteration of the for loop of get_usage_summary
SummaryStep(summary, entry) ==
    IF entry.status # "success" THEN summary
    ELSE [summary EXCEPT
            !.total_cost = @ + entry.cost_usd,
            !.total_tokens = @ + entry.total_tokens,
            !.by_provider = AddTo(@, entry.provider, entry.total_tokens, entry.cost_usd),
            !.by_agent = AddTo(@, entry.agent, entry.total_tokens, entry.cost_usd)]

\* get_usage_summary on the list _load_logs returned
GetUsageSummary(logs) ==
    LET upto[n \in 0..Len(logs)] ==
            IF n = 0 THEN NewSummary(logs) ELSE SummaryStep(upto[n - 1], logs[n])
    IN  upto[Len(logs)]

\* the arguments the caller passes to log_request: agent, provider, status;
\* every request reports 4 + 1 tokens and a cost of 0.000160 USD
LoggedRequests ==
    {[agent_name |-> a, provider |-> p, tokens_in |-> 4, tokens_out |-> 1,
      cost |-> 160, status |-> st] :
        a \in DOMAIN AgentSection, p \in {"claude", "chatgpt"},
        st \in {"success", "failure"}}

\* the file, and the summary seen, as an operation finds them
Before == [fileState |-> fileState, log |-> log, seen |-> seen]

TrackerInit ==
    /\ config = Config(PROVIDERS, 2)
    /\ environ = Environ(AllKeys)
    /\ installed = PROVIDERS
    /\ today = 0
    /\ cache = EmptyCache
    /\ ClientAtRest
    /\ startLog = <<>>
    /\ \E f \in {"absent", "valid"}, l \in StartLogs :
          /\ fileState = f
          /\ log = IF f = "absent" THEN <<>> ELSE l
    /\ writers = <<>>
    /\ last = NoCall
    /\ seen = NoSummary
    /\ granted = EmptyCache

\* midnight passes between two operations
TrackerTick ==
    /\ today < MaxDay
    /\ today' = today + 1
    /\ last' = NoCall
    /\ UNCHANGED <<fileState, log, seen>>

\* log_request(agent_name, provider, tokens_in, tokens_out, cost, status)
TrackerLogRequest ==
    /\ Len(LoadLogs(fileState, log)) < MaxEntries
    /\ \E r \in LoggedRequests :
          LET entry == LogEntry(today, r.agent_name, r.provider, r.tokens_in,
                                r.tokens_out, r.cost, r.status)
          IN  /\ log' = LogRequest(LoadLogs(fileState, log), entry)
              /\ fileState' = "valid"
              /\ last' = [op |-> "log_request", arg |-> entry, pre |-> Before]
    /\ seen' = NoSummary
    /\ today' = today

\* mutant: get_usage_summary writes the log back without its failure entries
TrackerGetUsageSummaryCompacting ==
    /\ last' = [op |-> "get_usage_summary",
                result |-> GetUsageSummary(LoadLogs(fileState, log)), pre |-> Before]
    /\ seen' = [any |-> TRUE, summary |-> GetUsageSummary(LoadLogs(fileState, log))]
    /\ log' = SelectSeq(LoadLogs(fileState, log), LAMBDA e : e.status = "success")
    /\ fileState' = "valid"
    /\ today' = today

\* get_usage_summary()
TrackerGetUsageSummary ==
    /\ last' = [op |-> "get_usage_summary",
                result |-> GetUsageSummary(LoadLogs(fileState, log)), pre |-> Before]
    /\ seen' = [any |-> TRUE, summary |-> GetUsageSummary(LoadLogs(fileState, log))]
    /\ UNCHANGED <<fileState, log, today>>

\* check_cost_limit(): (within_limit, current_cost, limit)
TrackerCheckCostLimit ==
    /\ last' = [op |-> "check_cost_limit",
                result |-> [within_limit |-> CheckCostLimit(config, LoadLogs(fileState, log)),
                            current |-> TotalCost(LoadLogs(fileState, log)),
                            limit |-> config.usage_control.cost_tracking.hard_limit_dollars],
                pre |-> Before]
    /\ UNCHANGED <<fileState, log, seen, today>>

\* check_requests_per_agent_per_day(agent_name): (within_limit, requests_today, limit)
TrackerCheckRequests ==
    /\ \E a \in DOMAIN config.agents :
          last' = [op |-> "check_requests_per_agent_per_day", arg |-> a,
                   result |-> [within_limit |->
                                  CheckRequestsPerAgentPerDay(config, LoadLogs(fileState, log),
                                                              today, a),
                               today_requests |-> RequestsToday(LoadLogs(fileState, log), today, a),
                               limit |-> config.agents[a].rate_limit.requests_per_day],
                   pre |-> Before]
    /\ UNCHANGED <<fileState, log, seen, today>>

\* what the operations of the tracker leave alone
TrackerFrame ==
    <<envVars, client, cache, pc, callVars, run, writers, granted>>

TrackerNext ==
    \/ TrackerTick
    \/ TrackerLogRequest
    \/ TrackerGetUsageSummary
    \/ TrackerCheckCostLimit
    \/ TrackerCheckRequests

SpecTracker == TrackerInit /\ [][TrackerNext /\ UNCHANGED TrackerFrame]_allVars

\* the log the operation that has just returned started from
LogBefore == LoadLogs(last.pre.fileState, last.pre.log)

\* C12: for a single caller, starting from an absent or a valid log, each
\* log_request leaves the previous entries unchanged and in order and adds
\* exactly its own entry at the end, also when the file does not exist yet,
\* and get_usage_summary, check_cost_limit and
\* check_requests_per_agent_per_day leave the file as it was; so the log
\* only grows.
C12_LogOnlyGrows ==
    last.op # None =>
        IF last.op = "log_request"
        THEN /\ fileState = "valid"
             /\ Len(log) = Len(LogBefore) + 1
             /\ SubSeq(log, 1, Len(LogBefore)) = LogBefore
             /\ log[Len(log)] = last.arg
        ELSE /\ fileState = last.pre.fileState
             /\ log = last.pre.log

\* C12 witness: a log_request has been appended to a log that held an entry
C12_Witness ==
    /\ last.op = "log_request"
    /\ LogBefore # <<>>
    /\ Len(log) = Len(LogBefore) + 1

(* ------------------------- outcomes of call() ------------------------- *)

\* C13 as stated: when a provider call succeeded and the write of the success
\* entry failed, no further provider is contacted and call() returns the
\* response; when all providers failed and the write of the failure entry
\* failed, call() ends with the all-providers-failed outcome.
C13_Original ==
    /\ \A i \in DOMAIN trace :
          (trace[i].op = "log_success" /\ trace[i].arg = 0) =>
             /\ \A j \in DOMAIN trace :
                   j > i => trace[j].op \notin {"get", "create", "call"}
             /\ pc = "done" => outcome = "response"
    /\ (pc = "done" /\ \E i \in DOMAIN trace :
                          trace[i].op = "log_failure" /\ trace[i].arg = 0) =>
          outcome = "all_failed"

\* the class of the exception call() raises for an outcome: ValueError at
\* lines 101, 109, 125 and from CredentialsManager.get and
\* ProviderFactory.create, re-raised at line 153; Exception at line 170; the
\* OSError of a failed write at line 161
RaisedClass(o) ==
    CASE o \in {"daily_limit", "cost_limit", "config_error", "credential_error",
                "provider_value_error"} -> "ValueError"
      [] o = "all_failed" -> "Exception"
      [] o = "log_error" -> "OSError"
      [] OTHER -> None

\* the four kinds of terminal failure the error taxonomy names
FailureKind(o) ==
    CASE o \in {"daily_limit", "cost_limit"} -> "LimitExceeded"
      [] o = "config_error" -> "ConfigError"
      [] o = "credential_error" -> "CredentialError"
      [] o = "all_failed" -> "AllProvidersFailed"
      [] OTHER -> None

\* the outcomes of call() that are failures of one of the four kinds
TerminalFailures ==
    {"daily_limit", "cost_limit", "config_error", "credential_error", "all_failed"}

\* C14 as stated: when call() has ended with a failure of one of the four
\* kinds, the class of the error raised belongs to that kind alone: no
\* failure of another kind is raised with the same class.
C14_Original ==
    (pc = "done" /\ outcome \in TerminalFailures) =>
        \A o \in TerminalFailures :
            RaisedClass(o) = RaisedClass(outcome) => FailureKind(o) = FailureKind(outcome)

(* ------------------------ get_usage_summary --------------------------- *)

RECURSIVE FieldSum(_, _, _)
\* the sum of a field over the entries of logs at the positions in I
FieldSum(logs, I, field) ==
    IF I = {} THEN 0
    ELSE LET i == CHOOSE x \in I : TRUE
         IN  logs[i][field] + FieldSum(logs, I \ {i}, field)

\* the calls, tokens and cost of the entries at the positions in I
Aggregate(logs, I) ==
    [calls |-> Cardinality(I),
     tokens |-> FieldSum(logs, I, "total_tokens"),
     cost |-> FieldSum(logs, I, "cost_usd")]

\* positions of the success entries of logs
Successes(logs) == {i \in DOMAIN logs : logs[i].status = "success"}

\* C15: get_usage_summary returns total_calls equal to the number of all
\* entries, and total_tokens, total_cost, by_provider and by_agent computed
\* from the success entries only: a provider or an agent has a row iff it has
\* a success entry, and the row counts and sums its success entries.
C15_SummaryCountsSuccessOnly ==
    last.op = "get_usage_summary" =>
        LET logs == LogBefore
            S == Successes(logs)
            r == last.result
        IN  /\ r.total_calls = Len(logs)
            /\ r.total_tokens = FieldSum(logs, S, "total_tokens")
            /\ r.total_cost = FieldSum(logs, S, "cost_usd")
            /\ DOMAIN r.by_provider = {logs[i].provider : i \in S}
            /\ \A p \in DOMAIN r.by_provider :
                  r.by_provider[p] = Aggregate(logs, {i \in S : logs[i].provider = p})
            /\ DOMAIN r.by_agent = {logs[i].agent : i \in S}
            /\ \A a \in DOMAIN r.by_agent :
                  r.by_agent[a] = Aggregate(logs, {i \in S : logs[i].agent = a})

\* C15 witness: a summary has been taken of a log that holds a success and a
\* failure entry
C15_Witness ==
    /\ last.op = "get_usage_summary"
    /\ \E i, j \in DOMAIN LogBefore :
          LogBefore[i].status = "success" /\ LogBefore[j].status = "failure"
    /\ last.result.total_calls = 2
    /\ last.result.total_tokens = 5

\* C16: get_usage_summary leaves the log file as it found it, and it returns
\* the aggregates the previous get_usage_summary returned when no log_request
\* came in between, whatever else did (the two limit checks, midnight).
C16_SummaryRepeatable ==
    last.op = "get_usage_summary" =>
        /\ fileState = last.pre.fileState
        /\ log = last.pre.log
        /\ last.pre.seen.any => last.result = last.pre.seen.summary

\* C16 witness: a second summary has been taken of a non-empty log with no
\* log_request since the first
C16_Witness ==
    /\ last.op = "get_usage_summary"
    /\ last.pre.seen.any
    /\ last.result.total_calls > 0
    /\ Successes(log) # {}

(* --------------------------- calculate_cost --------------------------- *)

\* billing sections a provider can be configured with, rates in 1e-4 USD:
\* 3 and 15, 0.80 and 4, 0.0004 and 0.0016, a rate missing, both missing
BillingSections ==
    {[input_per_mtok |-> 30000, output_per_mtok |-> 150000],
     [input_per_mtok |-> 8000, output_per_mtok |-> 40000],
     [input_per_mtok |-> 4, output_per_mtok |-> 16],
     [input_per_mtok |-> 30000],
     [output_per_mtok |-> 150000],
     [k \in {} |-> 0]}

\* provider sections with each of the billing sections, and with none
BilledProviders ==
    {[enabled |-> TRUE, api_key_env_var |-> "GROK_API_KEY", billing |-> b] :
        b \in BillingSections}
    \cup {[enabled |-> TRUE, api_key_env_var |-> "GROK_API_KEY"]}

\* (input_tokens, output_tokens) passed to calculate_cost
TokenCounts == {<<1000, 500>>, <<1, 1>>, <<4, 1>>, <<3, 0>>, <<1, 0>>, <<0, 1>>}

CostInit ==
    /\ \E section \in BilledProviders :
          config = [Config(PROVIDERS, 2) EXCEPT !.providers = [p \in PROVIDERS |-> section]]
    /\ environ = Environ(AllKeys)
    /\ installed = PROVIDERS
    /\ today = 0
    /\ log = <<>>
    /\ cache = EmptyCache
    /\ startLog = <<>>
    /\ ClientAtRest
    /\ LibraryAtRest

\* provider.calculate_cost(input_tokens, output_tokens) of a provider of the
\* variant `kind` constructed over its section of the configuration
ApplyCalculateCost ==
    \E kind \in PROVIDERS, t \in TokenCounts :
        last' = [op |-> "calculate_cost",
                 arg |-> [kind |-> kind, input_tokens |-> t[1], output_tokens |-> t[2]],
                 result |-> CalculateCost(kind, config.providers[kind], t[1], t[2])]

CostFrame ==
    <<vars, fileState, writers, seen, granted>>

CostNext == ApplyCalculateCost

SpecCost == CostInit /\ [][CostNext /\ UNCHANGED CostFrame]_allVars

\* the provider section calculate_cost has just been applied to
CostedSection == config.providers[last.arg.kind]

\* the section has a billing section with both rates
FullyBilled(section) ==
    /\ "billing" \in DOMAIN section
    /\ {"input_per_mtok", "output_per_mtok"} \subseteq DOMAIN section.billing

\* inputTokens * input_per_mtok / 1000 + outputTokens * output_per_mtok / 1000
\* of the call that has just returned, in units of 1e-7 USD
ExactCost ==
    last.arg.input_tokens * CostedSection.billing.input_per_mtok
    + last.arg.output_tokens * CostedSection.billing.output_per_mtok

C18_Original ==
    (last.op = "calculate_cost" /\ ~FullyBilled(CostedSection)) => ~last.result.ok

(* ------------------------ CredentialsManager -------------------------- *)

\* a configuration in which claude is configured, chatgpt has no
\* api_key_env_var and grok is not a provider
PartialConfig ==
    [Config(PROVIDERS, 2) EXCEPT
        !.providers = [p \in {"claude", "chatgpt"} |->
                          IF p = "claude" THEN ProviderSection(PROVIDERS)[p]
                          ELSE [ProviderSection(PROVIDERS)[p] EXCEPT !.api_key_env_var = None]]]

\* what a variable of the environment can hold: nothing (unset), the empty
\* string, or one of two keys
EnvValues == {None, "", "sk-1", "sk-2"}

\* the variables the environment changes while the manager lives
ChangingKeys == {"ANTHROPIC_API_KEY", "OPENAI_API_KEY"}

\* provider names passed to get
QueriedNames == {"claude", "Claude", "chatgpt", "grok"}

CredsInit ==
    /\ config \in {Config(PROVIDERS, 2), Config(PROVIDERS \ {"chatgpt"}, 2), PartialConfig}
    /\ environ \in {e \in [AllKeys -> EnvValues] : e["GROK_API_KEY"] = "sk-1"}
    /\ installed = PROVIDERS
    /\ today = 0
    /\ log = <<>>
    /\ cache = EmptyCache
    /\ startLog = <<>>
    /\ ClientAtRest
    /\ LibraryAtRest

\* the environment changes: a variable is set, changed, emptied or unset
SetEnviron ==
    /\ \E v \in ChangingKeys, x \in EnvValues :
          /\ x # environ[v]
          /\ environ' = [environ EXCEPT ![v] = x]
    /\ last' = NoCall
    /\ UNCHANGED <<cache, granted>>

\* CredentialsManager(config): a new manager with an empty cache
NewManager ==
    /\ cache # EmptyCache
    /\ cache' = EmptyCache
    /\ granted' = EmptyCache
    /\ last' = NoCall
    /\ UNCHANGED environ

\* CredentialsManager.get(provider_name)
CredsGet ==
    /\ \E p \in QueriedNames :
          LET got == CredentialsGet(config, environ, cache, p)
          IN  /\ last' = [op |-> "get", arg |-> p, result |-> got,
                          pre |-> [cache |-> cache, granted |-> granted]]
              /\ cache' = CacheAfterGet(cache, p, got)
              /\ granted' = IF got.ok /\ Lower(p) \notin DOMAIN granted
                            THEN (Lower(p) :> got.key) @@ granted
                            ELSE granted
    /\ UNCHANGED environ

\* mutant: validate_all reports a disabled provider by its key alone
ValidateAllIgnoringEnabled(cfg, env) ==
    [p \in DOMAIN cfg.providers |->
        IF Falsy(cfg.providers[p].api_key_env_var)
        THEN [available |-> FALSE, reason |-> "no env_var configured"]
        ELSE [available |-> ~Falsy(env[cfg.providers[p].api_key_env_var]),
              env_var |-> cfg.providers[p].api_key_env_var,
              reason |-> IF ~Falsy(env[cfg.providers[p].api_key_env_var])
                         THEN "ready" ELSE "set env_var"]]

\* CredentialsManager.validate_all: the results dict, one row per provider
\* of the configuration
ValidateAll(cfg, env) ==
    [p \in DOMAIN cfg.providers |->
        IF ~cfg.providers[p].enabled
        THEN [available |-> FALSE, reason |-> "disabled"]
        ELSE IF Falsy(cfg.providers[p].api_key_env_var)
        THEN [available |-> FALSE, reason |-> "no env_var configured"]
        ELSE [available |-> ~Falsy(env[cfg.providers[p].api_key_env_var]),
              env_var |-> cfg.providers[p].api_key_env_var,
              reason |-> IF ~Falsy(env[cfg.providers[p].api_key_env_var])
                         THEN "ready" ELSE "set env_var"]]

\* CredentialsManager.validate_all()
CredsValidateAll ==
    /\ last' = [op |-> "validate_all", result |-> ValidateAll(config, environ),
                pre |-> [cache |-> cache, granted |-> granted]]
    /\ UNCHANGED <<environ, cache, granted>>

CredsFrame ==
    <<config, installed, today, log, client, pc, callVars, run, fileState, writers, seen>>

CredsNext ==
    \/ SetEnviron
    \/ NewManager
    \/ CredsGet
    \/ CredsValidateAll

SpecCreds == CredsInit /\ [][CredsNext /\ UNCHANGED CredsFrame]_allVars

\* the provider named (in any capitalisation) is configured with the name of
\* a variable, and the variable holds a non-empty value
Resolvable(provider_name) ==
    /\ Lower(provider_name) \in DOMAIN config.providers
    /\ ~Falsy(config.providers[Lower(provider_name)].api_key_env_var)
    /\ ~Falsy(environ[config.providers[Lower(provider_name)].api_key_env_var])

\* an earlier get of this manager returned a key for the name of the get
\* that has just returned
GrantedBefore == Lower(last.arg) \in DOMAIN last.pre.granted

\* C19 as stated: get(p) fails, returning no key, when p is not a configured
\* provider, has no api_key_env_var, or its variable is unset or empty; a
\* failed get stores nothing in the cache; a get made once the variable is
\* set succeeds.
C19_Original ==
    last.op = "get" =>
        /\ ~Resolvable(last.arg) => (~last.result.ok /\ last.result.key = None)
        /\ ~last.result.ok => cache = last.pre.cache
        /\ Resolvable(last.arg) => last.result.ok

\* C19 amended: get(p) fails, returning no key, when p is not a configured
\* provider, has no api_key_env_var, or its variable is unset or empty,
\* unless an earlier get(p) of the same manager succeeded; a failed get stores
\* nothing in the cache; a get made once the variable is set succeeds.
C19_GetFailsUnlessResolvable ==
    last.op = "get" =>
        /\ (~Resolvable(last.arg) /\ ~GrantedBefore) =>
              (~last.result.ok /\ last.result.key = None)
        /\ ~last.result.ok => (cache = last.pre.cache /\ granted = last.pre.granted)
        /\ Resolvable(last.arg) => last.result.ok

\* C19 witness: a get has failed on a variable set to the empty string, and
\* the cache is as it was
C19_Witness ==
    /\ last.op = "get"
    /\ Lower(last.arg) = "claude"
    /\ environ["ANTHROPIC_API_KEY"] = ""
    /\ ~last.result.ok
    /\ cache = last.pre.cache

\* C20: once get(p) has returned a key, every later get(p) of the same
\* manager returns that key, whatever the variable holds by then, and leaves
\* the cache as it was.
C20_CachedKeyIsStable ==
    (last.op = "get" /\ GrantedBefore) =>
        /\ last.result.ok
        /\ last.result.key = last.pre.granted[Lower(last.arg)]
        /\ cache = last.pre.cache

\* C20 witness: a repeated get has returned the key of the first one while
\* the variable holds something else or nothing
C20_Witness ==
    /\ last.op = "get"
    /\ GrantedBefore
    /\ last.result.ok
    /\ Lower(last.arg) = "claude"
    /\ environ["ANTHROPIC_API_KEY"] # last.result.key

\* C21: validate_all returns one row per configured provider and no other;
\* a provider is reported available iff it is enabled, has an
\* api_key_env_var and the variable holds a non-empty value now, whatever the
\* cache holds; the cache is left as it was.
C21_ValidateAllReportsEnvironment ==
    last.op = "validate_all" =>
        /\ DOMAIN last.result = DOMAIN config.providers
        /\ \A p \in DOMAIN config.providers :
              last.result[p].available <=>
                 /\ config.providers[p].enabled
                 /\ ~Falsy(config.providers[p].api_key_env_var)
                 /\ ~Falsy(environ[config.providers[p].api_key_env_var])
        /\ cache = last.pre.cache
        /\ granted = last.pre.granted

\* C21 witness: validate_all has reported chatgpt disabled and claude
\* unavailable, its variable being unset, while the cache holds a key of claude
C21_Witness ==
    /\ last.op = "validate_all"
    /\ "claude" \in DOMAIN cache
    /\ ~last.result["claude"].available
    /\ ~config.providers["chatgpt"].enabled
    /\ last.result["chatgpt"].reason = "disabled"

(* -------------------------- ProviderFactory --------------------------- *)

\* ProviderFactory.PROVIDERS: the class registered for each kind
ProviderClasses ==
    [claude |-> "ClaudeProvider", chatgpt |-> "ChatGPTProvider", grok |-> "GrokProvider"]

\* mutant: the provider is constructed before the enabled flag is looked at
ConstructedUnchecked(provider_name, provider_config, libs) ==
    IF Lower(provider_name) \in PROVIDERS /\ Lower(provider_name) \in libs
    THEN ProviderClasses[Lower(provider_name)]
    ELSE None

\* the class of the instance create returns, None when it raises
Constructed(provider_name, provider_config, libs) ==
    IF FactoryCreate(provider_name, provider_config, libs) = "ok"
    THEN ProviderClasses[Lower(provider_name)]
    ELSE None

\* names passed to create: the kinds, one capitalised, and one that is none
CreatedNames == {"claude", "Claude", "chatgpt", "grok", "gemini"}

FactoryInit ==
    /\ config \in {Config(e, 2) : e \in SUBSET PROVIDERS}
    /\ environ = Environ(AllKeys)
    /\ installed \in {PROVIDERS, PROVIDERS \ {"grok"}}
    /\ today = 0
    /\ log = <<>>
    /\ cache = EmptyCache
    /\ startLog = <<>>
    /\ ClientAtRest
    /\ LibraryAtRest

\* ProviderFactory.create(provider_name, config, api_key), config being the
\* section of any provider of the configuration
ApplyCreate ==
    \E name \in CreatedNames, p \in DOMAIN config.providers :
        last' = [op |-> "create",
                 arg |-> [provider_name |-> name, config |-> config.providers[p]],
                 result |-> [status |-> FactoryCreate(name, config.providers[p], installed),
                             provider |-> Constructed(name, config.providers[p], installed)]]

FactoryFrame ==
    <<vars, fileState, writers, seen, granted>>

FactoryNext == ApplyCreate

SpecFactory == FactoryInit /\ [][FactoryNext /\ UNCHANGED FactoryFrame]_allVars

\* the name, in any capitalisation, is one of the three known kinds
KnownKind(name) == Lower(name) \in {"claude", "chatgpt", "grok"}

\* C22: create fails with the unknown-provider or the not-enabled error, and
\* constructs no provider, when the name is not one of the known kinds or
\* config.enabled is false; when it returns a provider the kind is known,
\* the config is enabled and the provider is of the kind named.
C22_CreateChecksKindAndEnabled ==
    last.op = "create" =>
        /\ (~KnownKind(last.arg.provider_name) \/ ~last.arg.config.enabled) =>
              /\ last.result.status \in {"unknown provider", "not enabled"}
              /\ last.result.provider = None
        /\ ~KnownKind(last.arg.provider_name) => last.result.status = "unknown provider"
        /\ last.result.provider # None =>
              /\ KnownKind(last.arg.provider_name)
              /\ last.arg.config.enabled
              /\ last.result.status = "ok"
              /\ last.result.provider =
                    CASE Lower(last.arg.provider_name) = "claude" -> "ClaudeProvider"
                      [] Lower(last.arg.provider_name) = "chatgpt" -> "ChatGPTProvider"
                      [] OTHER -> "GrokProvider"

\* C22 witness: create has refused a known kind whose config is not enabled
C22_Witness ==
    /\ last.op = "create"
    /\ last.arg.provider_name = "chatgpt"
    /\ ~last.arg.config.enabled
    /\ last.result.status = "not enabled"
    /\ last.result.provider = None

(* ---------------------- what call() leaves in the log ----------------- *)

\* provider.call was invoked at least once in this call()
SomeProviderInvoked == \E i \in DOMAIN trace : trace[i].op = "call"

\* C23 as stated, for calls in which no write of the log failed: a call() in
\* which a provider was invoked has appended one entry of its agent to the
\* log by the time it returns or raises.
C23_Original ==
    (pc = "done" /\ SomeProviderInvoked /\ ~SomeWriteFailed) =>
        /\ Len(log) = Len(startLog) + 1
        /\ log[Len(log)].agent = client.agent_name

(* ------------------ check_requests_per_agent_per_day ------------------ *)

\* positions of the entries of logs of agent a dated d with status st
EntriesWith(logs, a, d, st) ==
    {i \in DOMAIN logs :
        logs[i].agent = a /\ logs[i].timestamp = d /\ logs[i].status = st}

\* C24: check_requests_per_agent_per_day(A) reports as today's count the
\* number of success entries plus the number of failure entries of A dated
\* today, and within-limit iff that count is below A's requests_per_day;
\* the log without the entries of other agents and of other days gives the
\* same count.
C24_DailyCountByAgentAndDate ==
    last.op = "check_requests_per_agent_per_day" =>
        LET a == last.arg
            logs == LogBefore
            mine == SelectSeq(logs, LAMBDA e : e.agent = a /\ e.timestamp = today)
        IN  /\ last.result.today_requests =
                   Cardinality(EntriesWith(logs, a, today, "success"))
                   + Cardinality(EntriesWith(logs, a, today, "failure"))
            /\ last.result.today_requests = Len(mine)
            /\ last.result.limit = AgentSection[a].rate_limit.requests_per_day
            /\ last.result.within_limit <=>
                   last.result.today_requests < AgentSection[a].rate_limit.requests_per_day

\* C24 witness: an agent whose entries of yesterday reached its cap, one of
\* them a failure, is within its limit today
C24_Witness ==
    /\ last.op = "check_requests_per_agent_per_day"
    /\ today = 1
    /\ Cardinality(EntriesWith(LogBefore, last.arg, 0, "failure")) >= 1
    /\ Cardinality({i \in DOMAIN LogBefore :
                       LogBefore[i].agent = last.arg /\ LogBefore[i].timestamp = 0})
          >= AgentSection[last.arg].rate_limit.requests_per_day
    /\ last.result.today_requests = 0
    /\ last.result.within_limit

(* --------------------------- provider order --------------------------- *)

\* the agent section of the client's agent
AgentConfig == config.agents[client.agent_name]

\* positions of providers_to_try at which provider.call was invoked
Contacted == {trace[i].pos : i \in {j \in DOMAIN trace : trace[j].op = "call"}}

\* C25: in a call() that reached the provider list, the list is the override
\* (the configured default when there is none) followed by the agent's
\* fallback_providers in their order; providers are contacted in the order
\* of the list, a position being skipped only if its provider was not
\* constructed; with an override, the configured default is contacted only
\* at a position of fallback_providers.
C25_OverrideReplacesDefault ==
    providers_to_try # <<>> =>
        /\ providers_to_try[1] = IF client.preferred_provider # None
                                 THEN client.preferred_provider
                                 ELSE AgentConfig.provider
        /\ SubSeq(providers_to_try, 2, Len(providers_to_try)) = AgentConfig.fallback_providers
        /\ \A i, j \in DOMAIN trace :
              (i < j /\ trace[i].op = "call" /\ trace[j].op = "call") =>
                 trace[i].pos <= trace[j].pos
        /\ \A p \in Contacted :
              /\ \A q \in 1..(p - 1) : q \in Contacted \/ EventsAt("create", q) = {}
              /\ (/\ client.preferred_provider # None
                  /\ providers_to_try[p] = AgentConfig.provider
                  /\ client.preferred_provider # AgentConfig.provider) =>
                    /\ p > 1
                    /\ AgentConfig.fallback_providers[p - 1] = AgentConfig.provider

\* C25 witness: a client of math-agent constructed with the override grok has
\* contacted grok and then its fallback chatgpt; claude, the configured
\* default, is not in the list
C25_Witness ==
    /\ client = [agent_name |-> "math-agent", preferred_provider |-> "grok"]
    /\ providers_to_try = <<"grok", "chatgpt">>
    /\ Contacted = {1, 2}
    /\ AgentConfig.provider = "claude"

(* ------------------------------ the limits ---------------------------- *)

\* the calendar month of a day of the run, which begins on the last day of
\* a month
MonthOf(day) == IF day = 0 THEN "first month" ELSE "second month"

\* the cost of the success entries of logs dated in the month of day d
SuccessCostInMonthOf(logs, d) ==
    SuccessCost(SelectSeq(logs, LAMBDA e : MonthOf(e.timestamp) = MonthOf(d)))

\* C26 as stated: the amount compared with hard_limit_dollars is the cost of
\* the success entries of the current calendar month: a call() fails with
\* the cost-limit error only if that cost has reached the limit.
C26_Original ==
    (pc = "done" /\ outcome = "cost_limit") =>
        SuccessCostInMonthOf(startLog, startDay) >= HardLimit

\* C27: when call() is entered with both limits exceeded it fails with the
\* daily-limit error, and it fails with the cost-limit error only if the
\* agent was within its daily limit when the call was entered.
C27_DailyCheckedBeforeCost ==
    pc = "done" =>
        /\ (/\ EntriesOn(startLog, client.agent_name, startDay) >= DailyCap
            /\ SuccessCost(startLog) >= HardLimit) => outcome = "daily_limit"
        /\ outcome = "cost_limit" =>
              EntriesOn(startLog, client.agent_name, startDay) < DailyCap

\* C27 witness: a call entered with both limits exceeded has failed with the
\* daily-limit error
C27_Witness ==
    /\ pc = "done"
    /\ EntriesOn(startLog, client.agent_name, startDay) >= DailyCap
    /\ SuccessCost(startLog) >= HardLimit
    /\ outcome = "daily_limit"

\* C28 as stated: provider requests are made one after the other in the
\* order of the list, never going back to an earlier position, and the
\* provider at position k+1 is invoked only after the provider at position k
\* has failed all its attempts or could not be constructed.
C28_Original ==
    /\ \A i, j \in DOMAIN trace :
          (i < j /\ trace[i].op = "call" /\ trace[j].op = "call") =>
             trace[i].pos <= trace[j].pos
    /\ \A p \in Contacted :
          p > 1 => \/ FailedCallsAt(p - 1) = MaxAttempts
                   \/ EventsAt("create", p - 1) = {}

(* --------------------- the entries call() appends --------------------- *)

\* the last step of call() so far was a write of the log that succeeded,
\* made by the log_request of the path named
JustLogged(path) ==
    /\ trace # <<>>
    /\ trace[Len(trace)].op = path
    /\ trace[Len(trace)].arg = 1
    /\ log # <<>>

\* the fields every entry of call() has: the agent of the client, a status,
\* the sum of the token counts
EntryOfClient(e) ==
    /\ e.agent = client.agent_name
    /\ e.status \in {"success", "failure"}
    /\ e.total_tokens = e.tokens_in + e.tokens_out

\* a failure entry: the last provider of the list, no tokens, no cost, the
\* error in the metadata
FailureEntry(e) ==
    /\ e.status = "failure"
    /\ e.provider = providers_to_try[Len(providers_to_try)]
    /\ e.tokens_in = 0
    /\ e.tokens_out = 0
    /\ e.cost_usd = 0
    /\ "error" \in DOMAIN e.metadata

\* C29 as stated: an entry call() appends has the client's agent name, a
\* status and total_tokens = tokens_in + tokens_out; a success entry carries
\* the token counts and the cost of the response and the name of the
\* provider that succeeded; a failure entry names the last provider, has no
\* tokens and no cost, and has the error in its metadata.
C29_Original ==
    /\ JustLogged("log_success") =>
          LET e == log[Len(log)]
          IN  /\ EntryOfClient(e)
              /\ e.status = "success"
              /\ e.tokens_in = response.input_tokens
              /\ e.tokens_out = response.output_tokens
              /\ e.cost_usd = response.cost_usd
              /\ e.provider = providers_to_try[idx]
              /\ Lower(e.provider) = response.provider
    /\ JustLogged("log_failure") =>
          (EntryOfClient(log[Len(log)]) /\ FailureEntry(log[Len(log)]))

\* C29 amended: as stated, except that a success entry carries the cost of
\* the response rounded to 4 decimal places: a multiple of 0.0001 USD within
\* 0.00005 USD of it.
C29_EntryFields ==
    /\ JustLogged("log_success") =>
          LET e == log[Len(log)]
          IN  /\ EntryOfClient(e)
              /\ e.status = "success"
              /\ e.tokens_in = response.input_tokens
              /\ e.tokens_out = response.output_tokens
              /\ e.cost_usd % 100 = 0
              /\ e.cost_usd - response.cost_usd \in -50..50
              /\ e.provider = providers_to_try[idx]
              /\ Lower(e.provider) = response.provider
    /\ JustLogged("log_failure") =>
          (EntryOfClient(log[Len(log)]) /\ FailureEntry(log[Len(log)]))

\* C29 witness: call() has appended the success entry of a response whose
\* cost has more than 4 decimal places
C29_Witness ==
    /\ JustLogged("log_success")
    /\ log[Len(log)].status = "success"
    /\ log[Len(log)].tokens_in = response.input_tokens
    /\ log[Len(log)].cost_usd # response.cost_usd

(* ---------------------- call(), callers side by side ------------------ *)

\* call() has been entered by a client of the agent; the entry is the one
\* its log_request will write
CallerStart(agent_name) ==
    [pc |-> "check", logs |-> <<>>,
     entry |-> LogEntry(0, agent_name, "claude", 1, 1, 160, "success")]

\* the logs the callers of agent a find: its entries of today, fewer than
\* its requests_per_day
CallerStartLogs(a) ==
    {<<>>} \cup {<<LogEntry(0, a, "claude", 1, 1, 160, "success")>> :
                    n \in 2..AgentSection[a].rate_limit.requests_per_day}

CallersInit ==
    /\ config = Config(PROVIDERS, 2)
    /\ environ = Environ(AllKeys)
    /\ installed = PROVIDERS
    /\ today = 0
    /\ cache = EmptyCache
    /\ ClientAtRest
    /\ \E a \in DOMAIN AgentSection :
          /\ writers = [w \in Writers |-> CallerStart(a)]
          /\ \E l \in CallerStartLogs(a) :
                /\ log = l
                /\ startLog = l
                /\ fileState = IF l = <<>> THEN "absent" ELSE "valid"
    /\ last = NoCall
    /\ seen = NoSummary
    /\ granted = EmptyCache

\* the daily-limit check of call(): one read of the log
CallerCheckDaily(w) ==
    /\ writers[w].pc = "check"
    /\ writers' = [writers EXCEPT ![w].pc =
                      IF CheckRequestsPerAgentPerDay(config, LoadLogs(fileState, log),
                                                     today, writers[w].entry.agent)
                      THEN "check_cost" ELSE "daily_limit"]
    /\ UNCHANGED <<fileState, log>>

\* the cost-limit check of call(): another read of the log
CallerCheckCost(w) ==
    /\ writers[w].pc = "check_cost"
    /\ writers' = [writers EXCEPT ![w].pc =
                      IF CheckCostLimit(config, LoadLogs(fileState, log))
                      THEN "provider" ELSE "cost_limit"]
    /\ UNCHANGED <<fileState, log>>

\* the provider loop of call() up to its log_request: a provider answered,
\* or the last one failed
CallerProviders(w) ==
    /\ writers[w].pc = "provider"
    /\ \E st \in {"success", "failure"} :
          writers' = [writers EXCEPT
                         ![w].pc = "start",
                         ![w].entry =
                             IF st = "success" THEN @
                             ELSE LogEntry(0, @.agent, "chatgpt", 0, 0, 0, "failure")]
    /\ UNCHANGED <<fileState, log>>

CallersNext ==
    \E w \in Writers :
        \/ CallerCheckDaily(w)
        \/ CallerCheckCost(w)
        \/ CallerProviders(w)
        \/ WriterLoad(w)
        \/ WriterOpen(w)
        \/ WriterDump(w)

SpecCallers == CallersInit /\ [][CallersNext /\ UNCHANGED WritersFrame]_allVars

\* C30 as stated: whatever the interleaving of concurrent call() invocations
\* of one agent, the log never holds more entries of the agent dated today
\* than its requests_per_day.
C30_Original ==
    \A w \in Writers :
        EntriesOn(LoadLogs(fileState, log), writers[w].entry.agent, today)
            <= AgentSection[writers[w].entry.agent].rate_limit.requests_per_day

(* ------------- the checks and the summary, beside log_request --------- *)

\* a step of a caller of log_request; the results of earlier reads are gone
ReaderBesideWrite ==
    /\ \E w \in Writers :
          \/ WriterLoad(w)
          \/ WriterOpen(w)
          \/ WriterDump(w)
    /\ last' = NoCall
    /\ seen' = NoSummary
    /\ today' = today

\* another caller runs get_usage_summary, check_cost_limit or
\* check_requests_per_agent_per_day; each is one read of the file
ReaderReads ==
    /\ \/ TrackerGetUsageSummary
       \/ TrackerCheckCostLimit
       \/ TrackerCheckRequests
    /\ UNCHANGED writers

\* what the readers and the writers leave alone
ReadersFrame == <<envVars, client, cache, pc, callVars, run, granted>>

ReadersNext ==
    \/ ReaderBesideWrite
    \/ ReaderReads

SpecReaders == WritersInit /\ [][ReadersNext /\ UNCHANGED ReadersFrame]_allVars

\* the operations that read the log without writing it
ReadOperations ==
    {"get_usage_summary", "check_cost_limit", "check_requests_per_agent_per_day"}

\* writer w is between its open(log_file, "w") and the end of its json.dump,
\* and no other log_request has touched the file yet
FirstWriteUnderWay(state) ==
    \E w \in Writers :
        /\ state.writers[w].pc = "opened"
        /\ \A v \in Writers \ {w} : state.writers[v].pc \in {"start", "loaded"}

\* C31 as stated: a check or summary that runs while another caller's
\* log_request rewrites the file observes at least the entries the log held
\* before that write began, and does not let an agent pass a daily limit the
\* log had already reached.
C31_Original ==
    (last.op \in ReadOperations /\ FirstWriteUnderWay([writers |-> writers]))
        => /\ Len(LoadLogs(last.pre.fileState, last.pre.log)) >= Len(startLog)
           /\ (/\ last.op = "check_requests_per_agent_per_day"
               /\ ~CheckRequestsPerAgentPerDay(config, startLog, today, last.arg))
                  => ~last.result.within_limit


(* ----------------- the history under two log_request calls ------------ *)

\* the entries of logs, counted with their multiplicity
EntryBag(logs) ==
    [e \in {logs[i] : i \in DOMAIN logs} |-> Cardinality({i \in DOMAIN logs : logs[i] = e})]

\* every entry of before is in after, unchanged, as often as it was
HistoryKept(before, after) ==
    \A e \in DOMAIN EntryBag(before) :
        /\ e \in DOMAIN EntryBag(after)
        /\ EntryBag(after)[e] >= EntryBag(before)[e]

\* C32 as stated: whatever the interleaving of the concurrent log_request
\* calls, once all have returned every entry the log held before they began
\* is still in the log, unchanged.
C32_Original ==
    AllWritersDone => HistoryKept(startLog, LoadLogs(fileState, log))


(* ------------------------ the cost over the limit --------------------- *)

\* the entries of logs before entry i
EarlierEntries(logs, i) == SubSeq(logs, 1, i - 1)

\* C33: for one caller issuing call() one after the other, every success
\* entry of the log was appended to entries whose success cost was strictly
\* below hard_limit_dollars; so when the cost in the log has reached or
\* passed the limit, it is less than the cost of one entry above it.
C33_CostOvershootBounded ==
    /\ \A i \in DOMAIN log :
          log[i].status = "success" =>
              SuccessCost(EarlierEntries(log, i)) < HardLimit
    /\ SuccessCost(log) >= HardLimit =>
          \E i \in DOMAIN log :
              /\ log[i].status = "success"
              /\ SuccessCost(log) - log[i].cost_usd < HardLimit

\* C33 witness: call() has appended a success entry to a log whose cost was
\* above zero and below the limit, and the cost in the log is now above it
C33_Witness ==
    /\ JustLogged("log_success")
    /\ SuccessCost(EarlierEntries(log, Len(log))) > 0
    /\ SuccessCost(EarlierEntries(log, Len(log))) < HardLimit
    /\ SuccessCost(log) > HardLimit


(* --------------------- the summary, row against total ----------------- *)

\* a float is a binary64: sign and exponent aside, 53 bits of mantissa
MantissaBits == 53

\* the four bits of a hexadecimal digit, the high bit first
HexBits(d) == <<(d \div 8) % 2, (d \div 4) % 2, (d \div 2) % 2, d % 2>>

RECURSIVE FractionBits(_)
\* the bits of the 13 hexadecimal digits of a fraction
FractionBits(digits) ==
    IF digits = <<>> THEN <<>>
    ELSE HexBits(Head(digits)) \o FractionBits(Tail(digits))

\* the float 0x1.<digits>p<exp>: exp is the weight of the leading bit
HexFloat(digits, exp) == [exp |-> exp, bits |-> <<1>> \o FractionBits(digits)]

\* the float 0.0
FloatZero == [exp |-> 0, bits |-> [i \in 1..MantissaBits |-> 0]]

\* the float json.load returns for the cost_usd that log_request wrote: the
\* binary64 nearest to the amount.  0.0001 is 0x1.a36e2eb1c432dp-14 and
\* 0.0005 is 0x1.0624dd2f1a9fcp-11.
FloatOfCost(cost_usd) ==
    CASE cost_usd = 0 -> FloatZero
      [] cost_usd = 100 -> HexFloat(<<10, 3, 6, 14, 2, 14, 11, 1, 12, 4, 3, 2, 13>>, -14)
      [] cost_usd = 500 -> HexFloat(<<0, 6, 2, 4, 13, 13, 2, 15, 1, 10, 9, 15, 12>>, -11)

\* n zero bits
ZeroBits(n) == [i \in 1..n |-> 0]

\* the carry out of the bits i.. of a + b: some bit makes a carry and every
\* bit between passes it on
CarryOut(a, b, i) ==
    \E j \in i..Len(a) :
        /\ a[j] + b[j] = 2
        /\ \A k \in i..(j - 1) : a[k] + b[k] = 1

\* the sum of two bit strings of one length, the high bit first; one bit
\* longer when the addition carries out of the high bit
AddBits(a, b) ==
    LET sum == [i \in 1..Len(a) |->
                   (a[i] + b[i] + (IF CarryOut(a, b, i + 1) THEN 1 ELSE 0)) % 2]
    IN  IF CarryOut(a, b, 1) THEN <<1>> \o sum ELSE sum

\* an exact sum, leading bit 1 of weight exp, rounded to the mantissa: to the
\* nearest, a tie to the even mantissa
RoundToMantissa(exp, bits) ==
    IF Len(bits) <= MantissaBits
    THEN [exp |-> exp, bits |-> bits \o ZeroBits(MantissaBits - Len(bits))]
    ELSE LET kept == SubSeq(bits, 1, MantissaBits)
             rest == SubSeq(bits, MantissaBits + 1, Len(bits))
             sticky == \E i \in 2..Len(rest) : rest[i] = 1
             up == rest[1] = 1 /\ (sticky \/ kept[MantissaBits] = 1)
             next == AddBits(kept, ZeroBits(MantissaBits - 1) \o <<1>>)
         IN  IF ~up THEN [exp |-> exp, bits |-> kept]
             ELSE IF Len(next) = MantissaBits THEN [exp |-> exp, bits |-> next]
             ELSE [exp |-> exp + 1, bits |-> SubSeq(next, 1, MantissaBits)]

\* x + y of two floats that are zero or positive: the exact sum, rounded
FloatAdd(x, y) ==
    IF x = FloatZero THEN y
    ELSE IF y = FloatZero THEN x
    ELSE LET top == IF x.exp >= y.exp THEN x.exp ELSE y.exp
             low == (IF x.exp <= y.exp THEN x.exp ELSE y.exp) - (MantissaBits - 1)
             aligned(f) == ZeroBits(top - f.exp) \o f.bits
                              \o ZeroBits(f.exp - (MantissaBits - 1) - low)
             exact == AddBits(aligned(x), aligned(y))
         IN  IF Len(exact) = top - low + 1
             THEN RoundToMantissa(top, exact)
             ELSE RoundToMantissa(top + 1, exact)

\* the entries of the logs summarised: a success entry of 2 tokens and
\* 0.0001 USD or of 5 tokens and 0.0005 USD, or a failure entry
SummaryEntries ==
    {LogEntry(0, a, p, r.tokens_in, 1, r.cost, r.status) :
        a \in DOMAIN AgentSection, p \in {"claude", "chatgpt"},
        r \in {[tokens_in |-> 1, cost |-> 100, status |-> "success"],
               [tokens_in |-> 4, cost |-> 500, status |-> "success"],
               [tokens_in |-> 0, cost |-> 0, status |-> "failure"]}}

SummaryInit ==
    /\ config = Config(PROVIDERS, 2)
    /\ environ = Environ(AllKeys)
    /\ installed = PROVIDERS
    /\ today = 0
    /\ cache = EmptyCache
    /\ ClientAtRest
    /\ startLog = <<>>
    /\ fileState = "valid"
    /\ log \in UNION {[1..n -> SummaryEntries] : n \in 0..MaxSummaryLog}
    /\ writers = <<>>
    /\ last = NoCall
    /\ seen = NoSummary
    /\ granted = EmptyCache

SummaryNext == TrackerGetUsageSummary

SpecSummary == SummaryInit /\ [][SummaryNext /\ UNCHANGED TrackerFrame]_allVars

RECURSIVE RowSum(_, _)
\* a field of the rows of a breakdown, summed
RowSum(table, field) ==
    IF DOMAIN table = {} THEN 0
    ELSE LET k == CHOOSE x \in DOMAIN table : TRUE
         IN  table[k][field] + RowSum([x \in DOMAIN table \ {k} |-> table[x]], field)

\* the float the += of get_usage_summary leave in a cost that started at 0.0
\* and took the entries at the positions in I, in the order of the log
FloatCostOf(logs, I) ==
    LET upto[n \in 0..Len(logs)] ==
            IF n = 0 THEN FloatZero
            ELSE IF n \in I THEN FloatAdd(upto[n - 1], FloatOfCost(logs[n].cost_usd))
            ELSE upto[n - 1]
    IN  upto[Len(logs)]

\* the positions of the success entries that have the key of entry n
RowOf(logs, n, key) == {i \in Successes(logs) : logs[i][key] = logs[n][key]}

\* the costs of the rows of by_provider (key "provider") or by_agent (key
\* "agent"), added up as floats in the order the rows were made
FloatRowCosts(logs, key) ==
    LET upto[n \in 0..Len(logs)] ==
            IF n = 0 THEN FloatZero
            ELSE IF n \in Successes(logs) /\ \A i \in RowOf(logs, n, key) : i >= n
            THEN FloatAdd(upto[n - 1], FloatCostOf(logs, RowOf(logs, n, key)))
            ELSE upto[n - 1]
    IN  upto[Len(logs)]

\* the calls and the tokens of a summary of logs add up
CallsAndTokensAddUp(r, logs) ==
    /\ RowSum(r.by_provider, "calls") = Cardinality(Successes(logs))
    /\ RowSum(r.by_agent, "calls") = Cardinality(Successes(logs))
    /\ Cardinality(Successes(logs)) <= r.total_calls
    /\ RowSum(r.by_provider, "tokens") = r.total_tokens
    /\ RowSum(r.by_agent, "tokens") = r.total_tokens

\* C34 as stated: in the summary of every log the calls of by_provider and
\* of by_agent add up to the number of success entries, at most total_calls,
\* and the tokens and the costs of by_provider and of by_agent add up to
\* total_tokens and to total_cost.
C34_Original ==
    last.op = "get_usage_summary" =>
        /\ CallsAndTokensAddUp(last.result, LogBefore)
        /\ FloatRowCosts(LogBefore, "provider") = FloatCostOf(LogBefore, Successes(LogBefore))
        /\ FloatRowCosts(LogBefore, "agent") = FloatCostOf(LogBefore, Successes(LogBefore))

\* C34 amended: the calls and the tokens add up as stated; the costs of
\* by_provider and of by_agent add up to total_cost as decimal amounts, and
\* as the floats the summary holds when by_provider (by_agent) has one row.
C34_SummaryAddsUp ==
    last.op = "get_usage_summary" =>
        LET r == last.result
            logs == LogBefore
        IN  /\ CallsAndTokensAddUp(r, logs)
            /\ RowSum(r.by_provider, "cost") = r.total_cost
            /\ RowSum(r.by_agent, "cost") = r.total_cost
            /\ Cardinality(DOMAIN r.by_provider) <= 1 =>
                  FloatRowCosts(logs, "provider") = FloatCostOf(logs, Successes(logs))
            /\ Cardinality(DOMAIN r.by_agent) <= 1 =>
                  FloatRowCosts(logs, "agent") = FloatCostOf(logs, Successes(logs))

\* C34 witness: a summary has been taken of a log whose success entries are
\* of two providers and one agent, and the float costs of the two rows of
\* by_provider do not add up to the float total_cost
C34_Witness ==
    /\ last.op = "get_usage_summary"
    /\ Cardinality(DOMAIN last.result.by_provider) = 2
    /\ Cardinality(DOMAIN last.result.by_agent) = 1
    /\ last.result.total_cost = 700
    /\ FloatRowCosts(LogBefore, "provider") # FloatCostOf(LogBefore, Successes(LogBefore))


(* --------------------------- call() comes to an end ------------------- *)

\* a step of call(): its thread runs on, every provider.call returns or
\* raises, every sleep ends, every write of the log returns or raises
CallStep ==
    \/ CheckCost
    \/ Resolve
    \/ ProviderCall
    \/ Sleep
    \/ LogSuccess
    \/ ExceptException

\* the calls of one day, one after the other: no step of call() waits for
\* the clock
NextWithinDay ==
    \/ NewClient
    \/ CheckDaily
    \/ CallStep
    \/ Finish

\* the program, with call() never left standing between two of its steps
SpecCallRuns ==
    /\ Init
    /\ [][NextWithinDay /\ UNCHANGED libVars]_allVars
    /\ WF_allVars(CallStep /\ UNCHANGED libVars)

\* call() has been entered and has neither returned nor raised
InCall == pc \notin {"idle", "done"}

\* provider.call invocations of the call so far
Invocations == {i \in DOMAIN trace : trace[i].op = "call"}

\* positions of the provider list the call has reached
Positions == {trace[i].pos : i \in DOMAIN trace}

\* C35: every call() comes to its end, whatever the provider calls return
\* or raise; it makes at most 3 x (1 + number of fallback providers of the
\* agent) provider.call invocations, and at most 2 backoff sleeps at each
\* provider of its list.
C35_CallTerminates ==
    /\ [](client.agent_name # None =>
            /\ Cardinality(Invocations)
                  <= 3 * (1 + Len(config.agents[client.agent_name].fallback_providers))
            /\ \A p \in Positions : Cardinality(EventsAt("sleep", p)) <= 2)
    /\ InCall ~> pc = "done"

\* C35 witness: a call has ended after every provider of a list of more than
\* one failed all its attempts: 3 x (1 + fallback providers) invocations and
\* 2 sleeps at each
C35_Witness ==
    /\ pc = "done"
    /\ Len(providers_to_try) > 1
    /\ Cardinality(Invocations)
          = 3 * (1 + Len(config.agents[client.agent_name].fallback_providers))
    /\ \A p \in 1..Len(providers_to_try) : Cardinality(EventsAt("sleep", p)) = 2

====
